---- MODULE Spec2Model ----
(***************************************************************************)
(* Model of the consistency checker of bbolt, tx_check.go: Tx.Check starts *)
(* a goroutine running Tx.check, which scans the free list, seeds the      *)
(* reachability map, walks every bucket (page level checks, then the key   *)
(* order validator), sweeps the page ids below the high water mark and     *)
(* closes the channel.  Every finding is sent on an unbuffered channel.    *)
(***************************************************************************)
EXTENDS Integers, Sequences, FiniteSets, TLC

\* ------------------------------------------------------------------------
\* Bounds of the model
\* ------------------------------------------------------------------------
NumPages == 6          \* page ids the page accessor resolves: 0 .. NumPages-1
MaxByte == 2           \* key bytes are 1 .. MaxByte
MaxFree == 3           \* longest free list id sequence
MaxElems == 3          \* most elements on a page whose keys are free
MaxOverflow == 1       \* largest overflow of a page
MaxStack == 6          \* call depth at which the goroutine stack is exhausted

PageIds == 0 .. (NumPages - 1)

\* ------------------------------------------------------------------------
\* Program constants
\* ------------------------------------------------------------------------
pgidNoFreelist == 0 - 1

\* ------------------------------------------------------------------------
\* State
\* ------------------------------------------------------------------------
VARIABLES
    pages,      \* tx.page: page id -> [flags, overflow, elems]
    meta,       \* tx.meta: [pgid, freelist]
    freelist,   \* tx.db.freelist: [loaded, ids]
    buckets,    \* bucket id -> [root, pairs]; bucket 1 is tx.root
    stringer,   \* the injected KeyValueStringer
    pc,         \* position of the goroutine in Tx.check
    all,        \* check: the copy of the free list ids
    fi,         \* check: index of the free list scan
    freed,      \* check: the freed map (set of ids mapped to true)
    reachable,  \* check: the reachable map, page id -> id of the owning page
    si,         \* check: index of the final sweep
    stack,      \* frames of checkBucket, forEachPage, recursivelyCheckPagesInternal
    ch,         \* the unbuffered channel: <<>> or the one finding being handed over
    closed,     \* the channel has been closed
    received,   \* findings received by the caller, in order
    hist,       \* history: per finding sent, the line of the send and the buckets being walked
    claims,     \* history: page id -> number of times the walk claimed it
    visits,     \* history: page id -> number of times the key order validator entered it
    walked,     \* history: the buckets whose checkBucket has returned
    lastRet     \* history: last value returned by recursivelyCheckPagesInternal

snapshot == <<pages, meta, freelist, buckets, stringer>>
vars == <<pages, meta, freelist, buckets, stringer, pc, all, fi, freed, reachable,
          si, stack, ch, closed, received, hist, claims, visits, walked, lastRet>>

\* ------------------------------------------------------------------------
\* Keys
\* ------------------------------------------------------------------------
\* A []byte that may be nil.
Nil == [nil |-> TRUE, bytes |-> <<>>]
Some(k) == [nil |-> FALSE, bytes |-> k]

RECURSIVE compareKeys(_, _)
compareKeys(a, b) ==
    IF a = <<>> THEN (IF b = <<>> THEN 0 ELSE 0 - 1)
    ELSE IF b = <<>> THEN 1
    ELSE IF Head(a) < Head(b) THEN 0 - 1
    ELSE IF Head(a) > Head(b) THEN 1
    ELSE compareKeys(Tail(a), Tail(b))

HexDigits == <<"0", "1", "2", "3", "4", "5", "6", "7", "8", "9",
               "a", "b", "c", "d", "e", "f">>

RECURSIVE EncodeToString(_)
EncodeToString(k) ==
    IF k = <<>> THEN <<>>
    ELSE <<HexDigits[(Head(k) \div 16) + 1], HexDigits[(Head(k) % 16) + 1]>>
         \o EncodeToString(Tail(k))

\* A second stringer, rendering every byte as its decimal digits.
RECURSIVE DecimalToString(_)
DecimalToString(k) ==
    IF k = <<>> THEN <<>>
    ELSE <<HexDigits[(Head(k) \div 100) + 1], HexDigits[((Head(k) \div 10) % 10) + 1],
           HexDigits[(Head(k) % 10) + 1]>> \o DecimalToString(Tail(k))

\* A third stringer, abbreviating a key to its first byte.
FirstToString(k) == EncodeToString(SubSeq(k, 1, IF Len(k) > 0 THEN 1 ELSE 0))

\* the implementations of KeyValueStringer a caller injects
Stringers == {"hex", "dec", "first"}

Render(str, k) ==
    IF str = "hex" THEN EncodeToString(k)
    ELSE IF str = "dec" THEN DecimalToString(k)
    ELSE FirstToString(k)

KeyToString(k) == Render(stringer, k)

\* ------------------------------------------------------------------------
\* Pages
\* ------------------------------------------------------------------------
IsBranch(p) == "branch" \in p.flags
IsLeaf(p) == "leaf" \in p.flags
Count(p) == Len(p.elems)

\* ------------------------------------------------------------------------
\* Findings: the fields of the message formatted by fmt.Errorf
\* ------------------------------------------------------------------------
Finding(kind, page, idx, key, other, stk, num, typ) ==
    [kind |-> kind, page |-> page, idx |-> idx, key |-> key, other |-> other,
     stack |-> stk, num |-> num, typ |-> typ]

PageFinding(kind, page) == Finding(kind, page, 0 - 1, <<>>, <<>>, <<>>, 0, {})

\* ------------------------------------------------------------------------
\* Frames
\* ------------------------------------------------------------------------
Frame(fn, label, b, pgid, i, min, max) ==
    [fn |-> fn, pc |-> label, b |-> b, pgid |-> pgid, i |-> i,
     min |-> min, max |-> max, run |-> min, ret |-> Nil]

Top == stack[Len(stack)]
Below == SubSeq(stack, 1, Len(stack) - 1)
SetTop(f) == [stack EXCEPT ![Len(stack)] = f]
CanCall == Len(stack) < MaxStack

\* the buckets whose walks the goroutine is in, outermost first
BucketPath(stk) ==
    LET walks == SelectSeq(stk, LAMBDA f : f.fn = "cb")
    IN  [k \in 1 .. Len(walks) |-> walks[k].b]

\* pagesStack of the running recursivelyCheckPagesInternal
RECURSIVE PagesStack(_)
PagesStack(stk) ==
    IF stk = <<>> THEN <<>>
    ELSE IF stk[Len(stk)].fn = "rc"
         THEN Append(PagesStack(SubSeq(stk, 1, Len(stk) - 1)), stk[Len(stk)].pgid)
         ELSE <<>>

\* ------------------------------------------------------------------------
\* The channel
\* ------------------------------------------------------------------------
\* Running on a stream that takes a finding while another one is waiting
RunningUnsynchronised == ~closed /\ pc \notin {"done", "crashed"}

\* the producer can take a step: nothing it sent is waiting on the unbuffered stream
Running == ch = <<>> /\ ~closed /\ pc \notin {"done", "crashed"}

\* ch <- f at source line `line`, when cond holds
SendIf(cond, f, line) ==
    IF cond
    THEN /\ ch' = <<f>>
         /\ hist' = Append(hist, [line |-> line, b |-> BucketPath(stack)])
    ELSE UNCHANGED <<ch, hist>>

\* ------------------------------------------------------------------------
\* Tx.check
\* ------------------------------------------------------------------------
\* tx.db.loadFreelist(): the free list of a database opened read-only is loaded
\* on first use; the ids it holds are those the snapshot records
loadFreelist == [freelist EXCEPT !.loaded = TRUE]

\* Start taking the ids out of the database's free list instead of copying them
StartTaking ==
    /\ Running /\ pc = "start"
    /\ freelist' = [loaded |-> TRUE, ids |-> <<>>]
    /\ all' = freelist.ids
    /\ freed' = {}
    /\ fi' = 1
    /\ pc' = "scan"
    /\ UNCHANGED <<pages, meta, buckets, stringer, reachable, si, stack, ch, closed,
                   received, hist, claims, visits, walked, lastRet>>

\* tx.db.loadFreelist(), then the copy of the free list ids
Start ==
    /\ Running /\ pc = "start"
    /\ freelist' = loadFreelist
    /\ all' = freelist.ids
    /\ freed' = {}
    /\ fi' = 1
    /\ pc' = "scan"
    /\ UNCHANGED <<pages, meta, buckets, stringer, reachable, si, stack, ch, closed,
                   received, hist, claims, visits, walked, lastRet>>

\* FreeScan testing only the id scanned just before
FreeScanAdjacent ==
    /\ Running /\ pc = "scan" /\ fi <= Len(all)
    /\ SendIf(fi > 1 /\ all[fi] = all[fi - 1], PageFinding("already freed", all[fi]), 32)
    /\ freed' = freed \cup {all[fi]}
    /\ fi' = fi + 1
    /\ UNCHANGED <<snapshot, pc, all, reachable, si, stack, closed, received,
                   claims, visits, walked, lastRet>>

\* one iteration of the loop over the free list ids
FreeScan ==
    /\ Running /\ pc = "scan" /\ fi <= Len(all)
    /\ SendIf(all[fi] \in freed, PageFinding("already freed", all[fi]), 32)
    /\ freed' = freed \cup {all[fi]}
    /\ fi' = fi + 1
    /\ UNCHANGED <<snapshot, pc, all, reachable, si, stack, closed, received,
                   claims, visits, walked, lastRet>>

FreelistSpan ==
    IF meta.freelist # pgidNoFreelist
    THEN meta.freelist .. (meta.freelist + pages[meta.freelist].overflow)
    ELSE {}

\* the reachable map is created and seeded
Seed ==
    /\ Running /\ pc = "scan" /\ fi > Len(all)
    /\ reachable' = [id \in {0, 1} \cup FreelistSpan |->
                        IF id \in FreelistSpan THEN meta.freelist ELSE id]
    /\ pc' = "walk"
    /\ UNCHANGED <<snapshot, all, fi, freed, si, stack, ch, closed, received,
                   hist, claims, visits, walked, lastRet>>

\* tx.checkBucket(&tx.root, ...)
Walk ==
    /\ Running /\ pc = "walk"
    /\ stack' = <<Frame("cb", "entry", 1, buckets[1].root, 0, Nil, Nil)>>
    /\ pc' = "sweep"
    /\ si' = 0
    /\ UNCHANGED <<snapshot, all, fi, freed, reachable, ch, closed, received,
                   hist, claims, visits, walked, lastRet>>

\* Sweep going down from the high water mark
SweepDescending ==
    /\ Running /\ pc = "sweep" /\ stack = <<>> /\ si < meta.pgid
    /\ LET i == meta.pgid - 1 - si
       IN  SendIf(i \notin DOMAIN reachable /\ i \notin freed,
                  PageFinding("unreachable unfreed", i), 54)
    /\ si' = si + 1
    /\ UNCHANGED <<snapshot, pc, all, fi, freed, reachable, stack, closed, received,
                   claims, visits, walked, lastRet>>

\* Sweep not consulting the freed map
SweepReachableOnly ==
    /\ Running /\ pc = "sweep" /\ stack = <<>> /\ si < meta.pgid
    /\ SendIf(si \notin DOMAIN reachable, PageFinding("unreachable unfreed", si), 54)
    /\ si' = si + 1
    /\ UNCHANGED <<snapshot, pc, all, fi, freed, reachable, stack, closed, received,
                   claims, visits, walked, lastRet>>

\* Sweep whose outcome for an id depends on the scheduling of the run
SweepRacy ==
    /\ Running /\ pc = "sweep" /\ stack = <<>> /\ si < meta.pgid
    /\ \E seen \in BOOLEAN :
          SendIf(seen /\ si \notin DOMAIN reachable /\ si \notin freed,
                 PageFinding("unreachable unfreed", si), 54)
    /\ si' = si + 1
    /\ UNCHANGED <<snapshot, pc, all, fi, freed, reachable, stack, closed, received,
                   claims, visits, walked, lastRet>>

\* one iteration of the loop over the ids below the high water mark
Sweep ==
    /\ Running /\ pc = "sweep" /\ stack = <<>> /\ si < meta.pgid
    /\ SendIf(si \notin DOMAIN reachable /\ si \notin freed,
              PageFinding("unreachable unfreed", si), 54)
    /\ si' = si + 1
    /\ UNCHANGED <<snapshot, pc, all, fi, freed, reachable, stack, closed, received,
                   claims, visits, walked, lastRet>>

\* Close not waiting for the end of the sweep
CloseEarly ==
    /\ Running /\ pc = "sweep" /\ stack = <<>>
    /\ closed' = TRUE
    /\ pc' = "done"
    /\ UNCHANGED <<snapshot, all, fi, freed, reachable, si, stack, ch, received,
                   hist, claims, visits, walked, lastRet>>

Close ==
    /\ Running /\ pc = "sweep" /\ stack = <<>> /\ si >= meta.pgid
    /\ closed' = TRUE
    /\ pc' = "done"
    /\ UNCHANGED <<snapshot, all, fi, freed, reachable, si, stack, ch, received,
                   hist, claims, visits, walked, lastRet>>

\* ------------------------------------------------------------------------
\* Tx.checkBucket
\* ------------------------------------------------------------------------
InBucket(label) == Running /\ stack # <<>> /\ Top.fn = "cb" /\ Top.pc = label

\* CheckBucketInline skipping the pages of the bucket but not its pairs
CheckBucketInlinePairs ==
    /\ InBucket("entry") /\ Top.pgid = 0
    /\ stack' = SetTop([Top EXCEPT !.pc = "foreach", !.i = 1])
    /\ UNCHANGED <<snapshot, pc, all, fi, freed, reachable, si, ch, closed, received,
                   hist, claims, visits, walked, lastRet>>

\* inline buckets return at once
CheckBucketInline ==
    /\ InBucket("entry") /\ Top.pgid = 0
    /\ stack' = Below
    /\ walked' = walked \cup {Top.b}
    /\ UNCHANGED <<snapshot, pc, all, fi, freed, reachable, si, ch, closed, received,
                   hist, claims, visits, lastRet>>

\* b.tx.forEachPage(b.root, 0, ...)
CheckBucketPages ==
    /\ InBucket("entry") /\ Top.pgid # 0 /\ CanCall
    /\ stack' = Append(SetTop([Top EXCEPT !.pc = "validate"]),
                       Frame("fp", "bounds", Top.b, Top.pgid, 0, Nil, Nil))
    /\ UNCHANGED <<snapshot, pc, all, fi, freed, reachable, si, ch, closed, received,
                   hist, claims, visits, walked, lastRet>>

\* tx.recursivelyCheckPages(b.root, ...)
CheckBucketKeys ==
    /\ InBucket("validate") /\ CanCall
    /\ stack' = Append(SetTop([Top EXCEPT !.pc = "foreach", !.i = 1]),
                       Frame("rc", "entry", Top.b, Top.pgid, 0, Nil, Nil))
    /\ UNCHANGED <<snapshot, pc, all, fi, freed, reachable, si, ch, closed, received,
                   hist, claims, visits, walked, lastRet>>

\* one pair of b.ForEach: a pair that b.Bucket decodes to a bucket is walked
CheckBucketForEach ==
    /\ InBucket("foreach") /\ Top.i <= Len(buckets[Top.b].pairs)
    /\ LET child == buckets[Top.b].pairs[Top.i]
           next == SetTop([Top EXCEPT !.i = @ + 1])
       IN  IF child = 0
           THEN stack' = next
           ELSE /\ CanCall
                /\ stack' = Append(next, Frame("cb", "entry", child,
                                               buckets[child].root, 0, Nil, Nil))
    /\ UNCHANGED <<snapshot, pc, all, fi, freed, reachable, si, ch, closed, received,
                   hist, claims, visits, walked, lastRet>>

CheckBucketReturn ==
    /\ InBucket("foreach") /\ Top.i > Len(buckets[Top.b].pairs)
    /\ stack' = Below
    /\ walked' = walked \cup {Top.b}
    /\ UNCHANGED <<snapshot, pc, all, fi, freed, reachable, si, ch, closed, received,
                   hist, claims, visits, lastRet>>

\* ------------------------------------------------------------------------
\* Tx.forEachPage with the callback of checkBucket
\* ------------------------------------------------------------------------
InPage(label) == Running /\ stack # <<>> /\ Top.fn = "fp" /\ Top.pc = label

VisitBounds ==
    /\ InPage("bounds")
    /\ SendIf(Top.pgid > meta.pgid,
              Finding("out of bounds", Top.pgid, 0 - 1, <<>>, <<>>, <<>>, meta.pgid, {}), 72)
    /\ stack' = SetTop([Top EXCEPT !.pc = "claim", !.i = 0])
    /\ UNCHANGED <<snapshot, pc, all, fi, freed, reachable, si, closed, received,
                   claims, visits, walked, lastRet>>

\* the test of the claim loop: id := p.id + i
VisitClaim ==
    /\ InPage("claim") /\ Top.i <= pages[Top.pgid].overflow
    /\ LET id == Top.pgid + Top.i
       IN  /\ SendIf(id \in DOMAIN reachable, PageFinding("multiple references", id), 79)
           /\ claims' = [claims EXCEPT ![id] = @ + 1]
    /\ stack' = SetTop([Top EXCEPT !.pc = "own"])
    /\ UNCHANGED <<snapshot, pc, all, fi, freed, reachable, si, closed, received, visits, walked, lastRet>>

\* VisitOwn recording the page id instead of the id of the span
VisitOwnFirstId ==
    /\ InPage("own")
    /\ reachable' = [x \in DOMAIN reachable \cup {Top.pgid} |->
                        IF x = Top.pgid THEN Top.pgid ELSE reachable[x]]
    /\ stack' = SetTop([Top EXCEPT !.pc = "claim", !.i = @ + 1])
    /\ UNCHANGED <<snapshot, pc, all, fi, freed, si, ch, closed, received, hist,
                   claims, visits, walked, lastRet>>

\* reachable[id] = p
VisitOwn ==
    /\ InPage("own")
    /\ LET id == Top.pgid + Top.i
       IN  reachable' = [x \in DOMAIN reachable \cup {id} |->
                            IF x = id THEN Top.pgid ELSE reachable[x]]
    /\ stack' = SetTop([Top EXCEPT !.pc = "claim", !.i = @ + 1])
    /\ UNCHANGED <<snapshot, pc, all, fi, freed, si, ch, closed, received, hist,
                   claims, visits, walked, lastRet>>

VisitClaimed ==
    /\ InPage("claim") /\ Top.i > pages[Top.pgid].overflow
    /\ stack' = SetTop([Top EXCEPT !.pc = "type"])
    /\ UNCHANGED <<snapshot, pc, all, fi, freed, reachable, si, ch, closed, received,
                   hist, claims, visits, walked, lastRet>>

\* VisitType testing the page type before the free list
VisitTypeFirst ==
    /\ InPage("type")
    /\ LET p == pages[Top.pgid]
       IN  IF ~IsBranch(p) /\ ~IsLeaf(p)
           THEN SendIf(TRUE, Finding("invalid type", Top.pgid, 0 - 1, <<>>, <<>>, <<>>, 0,
                                     p.flags), 88)
           ELSE SendIf(Top.pgid \in freed, PageFinding("reachable freed", Top.pgid), 86)
    /\ stack' = SetTop([Top EXCEPT !.pc = "children", !.i = 0])
    /\ UNCHANGED <<snapshot, pc, all, fi, freed, reachable, si, closed, received,
                   claims, visits, walked, lastRet>>

\* the free list test, else the page type test
VisitType ==
    /\ InPage("type")
    /\ LET p == pages[Top.pgid]
       IN  IF Top.pgid \in freed
           THEN SendIf(TRUE, PageFinding("reachable freed", Top.pgid), 86)
           ELSE SendIf(~IsBranch(p) /\ ~IsLeaf(p),
                       Finding("invalid type", Top.pgid, 0 - 1, <<>>, <<>>, <<>>, 0, p.flags), 88)
    /\ stack' = SetTop([Top EXCEPT !.pc = "children", !.i = 0])
    /\ UNCHANGED <<snapshot, pc, all, fi, freed, reachable, si, closed, received,
                   claims, visits, walked, lastRet>>

\* forEachPage recurses into the children of a branch page
ForEachPageChild ==
    /\ InPage("children") /\ IsBranch(pages[Top.pgid]) /\ Top.i < Count(pages[Top.pgid])
    /\ CanCall
    /\ stack' = Append(SetTop([Top EXCEPT !.i = @ + 1]),
                       Frame("fp", "bounds", Top.b,
                             pages[Top.pgid].elems[Top.i + 1].pgid, 0, Nil, Nil))
    /\ UNCHANGED <<snapshot, pc, all, fi, freed, reachable, si, ch, closed, received,
                   hist, claims, visits, walked, lastRet>>

ForEachPageReturn ==
    /\ InPage("children")
    /\ ~(IsBranch(pages[Top.pgid]) /\ Top.i < Count(pages[Top.pgid]))
    /\ stack' = Below
    /\ UNCHANGED <<snapshot, pc, all, fi, freed, reachable, si, ch, closed, received,
                   hist, claims, visits, walked, lastRet>>

\* ------------------------------------------------------------------------
\* Tx.recursivelyCheckPagesInternal
\* ------------------------------------------------------------------------
InCheck(label) == Running /\ stack # <<>> /\ Top.fn = "rc" /\ Top.pc = label

KeyFinding(kind, key, other) ==
    Finding(kind, Top.pgid, Top.i, KeyToString(key), other, PagesStack(stack), 0, {})

ElemKey == pages[Top.pgid].elems[Top.i + 1].key

\* the switch on the page flags; runningMin := minKeyClosed
CheckPagesEnter ==
    /\ InCheck("entry")
    /\ LET p == pages[Top.pgid]
       IN  /\ SendIf(~IsBranch(p) /\ ~IsLeaf(p),
                     Finding("unexpected page type", Top.pgid, 0 - 1, <<>>, <<>>, <<>>, 0, {}),
                     171)
           /\ stack' = SetTop([Top EXCEPT !.run = Top.min, !.i = 0,
                                 !.pc = IF IsBranch(p) THEN "bmin"
                                        ELSE IF IsLeaf(p) THEN "lmin" ELSE "return"])
    /\ visits' = [visits EXCEPT ![Top.pgid] = @ + 1]
    /\ UNCHANGED <<snapshot, pc, all, fi, freed, reachable, si, closed, received,
                   claims, walked, lastRet>>

\* branch page, element i: the lower bound test
BranchMin ==
    /\ InCheck("bmin") /\ Top.i < Count(pages[Top.pgid])
    /\ SendIf(Top.i = 0 /\ ~Top.run.nil /\ compareKeys(Top.run.bytes, ElemKey) > 0,
              KeyFinding("branch key below ancestor", ElemKey, <<>>), 125)
    /\ stack' = SetTop([Top EXCEPT !.pc = "bmax"])
    /\ UNCHANGED <<snapshot, pc, all, fi, freed, reachable, si, closed, received,
                   claims, visits, walked, lastRet>>

\* branch page, element i: the upper bound test
BranchMax ==
    /\ InCheck("bmax")
    /\ SendIf(~Top.max.nil /\ compareKeys(ElemKey, Top.max.bytes) >= 0,
              KeyFinding("branch key above ancestor", ElemKey, KeyToString(Top.max.bytes)),
              130)
    /\ stack' = SetTop([Top EXCEPT !.pc = "bcall"])
    /\ UNCHANGED <<snapshot, pc, all, fi, freed, reachable, si, closed, received,
                   claims, visits, walked, lastRet>>

\* branch page, element i: the recursion into the child
BranchChild ==
    /\ InCheck("bcall") /\ CanCall
    /\ LET p == pages[Top.pgid]
           maxKey == IF Top.i < Count(p) - 1 THEN Some(p.elems[Top.i + 2].key) ELSE Top.max
       IN  stack' = Append(SetTop([Top EXCEPT !.pc = "bret"]),
                           Frame("rc", "entry", Top.b, p.elems[Top.i + 1].pgid, 0,
                                 Some(ElemKey), maxKey))
    /\ UNCHANGED <<snapshot, pc, all, fi, freed, reachable, si, ch, closed, received,
                   hist, claims, visits, walked, lastRet>>

\* branch page: the loop is over, maxKeyInSubtree is returned
BranchDone ==
    /\ InCheck("bmin") /\ Top.i >= Count(pages[Top.pgid])
    /\ stack' = SetTop([Top EXCEPT !.pc = "return"])
    /\ UNCHANGED <<snapshot, pc, all, fi, freed, reachable, si, ch, closed, received,
                   hist, claims, visits, walked, lastRet>>

\* leaf page, element i: the lower bound test
LeafMin ==
    /\ InCheck("lmin") /\ Top.i < Count(pages[Top.pgid])
    /\ SendIf(Top.i = 0 /\ ~Top.run.nil /\ compareKeys(Top.run.bytes, ElemKey) > 0,
              KeyFinding("leaf key below ancestor", ElemKey, <<>>), 150)
    /\ stack' = SetTop([Top EXCEPT !.pc = "lless"])
    /\ UNCHANGED <<snapshot, pc, all, fi, freed, reachable, si, closed, received,
                   claims, visits, walked, lastRet>>

\* leaf page, element i: found <
LeafLess ==
    /\ InCheck("lless")
    /\ SendIf(Top.i > 0 /\ compareKeys(Top.run.bytes, ElemKey) > 0,
              KeyFinding("found <", ElemKey, KeyToString(Top.run.bytes)), 154)
    /\ stack' = SetTop([Top EXCEPT !.pc = "lequal"])
    /\ UNCHANGED <<snapshot, pc, all, fi, freed, reachable, si, closed, received,
                   claims, visits, walked, lastRet>>

\* LeafEqual comparing the keys as the stringer renders them
LeafEqualRendered ==
    /\ InCheck("lequal")
    /\ SendIf(Top.i > 0 /\ KeyToString(Top.run.bytes) = KeyToString(ElemKey),
              KeyFinding("found =", ElemKey, KeyToString(Top.run.bytes)), 158)
    /\ stack' = SetTop([Top EXCEPT !.pc = "lmax"])
    /\ UNCHANGED <<snapshot, pc, all, fi, freed, reachable, si, closed, received,
                   claims, visits, walked, lastRet>>

\* leaf page, element i: found =
LeafEqual ==
    /\ InCheck("lequal")
    /\ SendIf(Top.i > 0 /\ compareKeys(Top.run.bytes, ElemKey) = 0,
              KeyFinding("found =", ElemKey, KeyToString(Top.run.bytes)), 158)
    /\ stack' = SetTop([Top EXCEPT !.pc = "lmax"])
    /\ UNCHANGED <<snapshot, pc, all, fi, freed, reachable, si, closed, received,
                   claims, visits, walked, lastRet>>

\* leaf page, element i: the upper bound test
LeafMax ==
    /\ InCheck("lmax")
    /\ SendIf(~Top.max.nil /\ compareKeys(ElemKey, Top.max.bytes) >= 0,
              KeyFinding("leaf key above ancestor", ElemKey, KeyToString(Top.max.bytes)),
              162)
    /\ stack' = SetTop([Top EXCEPT !.pc = "lnext"])
    /\ UNCHANGED <<snapshot, pc, all, fi, freed, reachable, si, closed, received,
                   claims, visits, walked, lastRet>>

\* LeafNext keeping the greatest key seen so far
LeafNextGreatest ==
    /\ InCheck("lnext")
    /\ stack' = SetTop([Top EXCEPT
                          !.run = IF Top.i = 0 \/ compareKeys(ElemKey, Top.run.bytes) > 0
                                  THEN Some(ElemKey) ELSE Top.run,
                          !.i = @ + 1, !.pc = "lmin"])
    /\ UNCHANGED <<snapshot, pc, all, fi, freed, reachable, si, ch, closed, received,
                   hist, claims, visits, walked, lastRet>>

\* leaf page, element i: runningMin = elem.key()
LeafNext ==
    /\ InCheck("lnext")
    /\ stack' = SetTop([Top EXCEPT !.run = Some(ElemKey), !.i = @ + 1, !.pc = "lmin"])
    /\ UNCHANGED <<snapshot, pc, all, fi, freed, reachable, si, ch, closed, received,
                   hist, claims, visits, walked, lastRet>>

\* leaf page: the loop is over, the last key is returned
LeafDone ==
    /\ InCheck("lmin") /\ Top.i >= Count(pages[Top.pgid])
    /\ LET p == pages[Top.pgid]
       IN  stack' = SetTop([Top EXCEPT !.pc = "return",
                                 !.ret = IF Count(p) > 0 THEN Some(p.elems[Count(p)].key)
                                         ELSE Nil])
    /\ UNCHANGED <<snapshot, pc, all, fi, freed, reachable, si, ch, closed, received,
                   hist, claims, visits, walked, lastRet>>

\* return to the caller: a branch frame stores the result in maxKeyInSubtree and
\* runningMin and moves to its next element, checkBucket drops it
CheckPagesReturn ==
    /\ InCheck("return")
    /\ LET caller == Below[Len(Below)]
       IN  stack' = IF caller.fn = "rc"
                    THEN [Below EXCEPT ![Len(Below)] =
                             [caller EXCEPT !.ret = Top.ret, !.run = Top.ret,
                                            !.i = @ + 1, !.pc = "bmin"]]
                    ELSE Below
    /\ lastRet' = [pgid |-> Top.pgid, val |-> Top.ret]
    /\ UNCHANGED <<snapshot, pc, all, fi, freed, reachable, si, ch, closed, received,
                   hist, claims, visits, walked>>

\* ------------------------------------------------------------------------
\* The runtime and the caller
\* ------------------------------------------------------------------------
\* a call with the goroutine stack exhausted: the runtime ends the program
AtCall ==
    \/ Top.fn = "cb" /\ Top.pc = "entry" /\ Top.pgid # 0
    \/ Top.fn = "cb" /\ Top.pc = "validate"
    \/ Top.fn = "cb" /\ Top.pc = "foreach" /\ Top.i <= Len(buckets[Top.b].pairs)
         /\ buckets[Top.b].pairs[Top.i] # 0
    \/ Top.fn = "fp" /\ Top.pc = "children" /\ IsBranch(pages[Top.pgid])
         /\ Top.i < Count(pages[Top.pgid])
    \/ Top.fn = "rc" /\ Top.pc = "bcall"

StackOverflow ==
    /\ Running /\ stack # <<>> /\ AtCall /\ ~CanCall
    /\ pc' = "crashed"
    /\ UNCHANGED <<snapshot, all, fi, freed, reachable, si, stack, ch, closed, received,
                   hist, claims, visits, walked, lastRet>>

\* the caller receives from the channel
Receive ==
    /\ ch # <<>>
    /\ received' = Append(received, ch[1])
    /\ ch' = <<>>
    /\ UNCHANGED <<snapshot, pc, all, fi, freed, reachable, si, stack, closed, hist,
                   claims, visits, walked, lastRet>>

Next ==
    \/ Start \/ FreeScan \/ Seed \/ Walk \/ Sweep \/ Close
    \/ CheckBucketInline \/ CheckBucketPages \/ CheckBucketKeys
    \/ CheckBucketForEach \/ CheckBucketReturn
    \/ VisitBounds \/ VisitClaim \/ VisitOwn \/ VisitClaimed \/ VisitType
    \/ ForEachPageChild \/ ForEachPageReturn
    \/ CheckPagesEnter \/ BranchMin \/ BranchMax \/ BranchChild \/ BranchDone
    \/ LeafMin \/ LeafLess \/ LeafEqual \/ LeafMax \/ LeafNext \/ LeafDone
    \/ CheckPagesReturn
    \/ StackOverflow
    \/ Receive

\* ------------------------------------------------------------------------
\* Snapshots the check is run on
\* ------------------------------------------------------------------------
Bytes == 1 .. MaxByte
ShortKeys == {<<>>} \cup {<<a>> : a \in Bytes}
Keys == ShortKeys \cup {<<1, a>> : a \in Bytes}

SeqsUpTo(S, n) == UNION {[1 .. m -> S] : m \in 0 .. n}
Ascending(q) == \A i \in 1 .. Len(q) - 1 : q[i] < q[i + 1]

MetaPage == [flags |-> {"meta"}, overflow |-> 0, elems |-> <<>>]
FreePage == [flags |-> {}, overflow |-> 0, elems |-> <<>>]
FreelistPage(ov) == [flags |-> {"freelist"}, overflow |-> ov, elems |-> <<>>]
LeafPage(keys, ov) ==
    [flags |-> {"leaf"}, overflow |-> ov,
     elems |-> [i \in 1 .. Len(keys) |-> [key |-> keys[i], pgid |-> 0]]]
BranchPage(keys, children) ==
    [flags |-> {"branch"}, overflow |-> 0,
     elems |-> [i \in 1 .. Len(keys) |-> [key |-> keys[i], pgid |-> children[i]]]]

\* pages 0 and 1 are the meta pages, the pages not listed hold nothing
PagesWith(listed) ==
    [id \in PageIds |-> IF id \in DOMAIN listed THEN listed[id]
                        ELSE IF id \in {0, 1} THEN MetaPage ELSE FreePage]

Snapshot(pgs, pgid, fl, ids, bks, str) ==
    [pages |-> pgs, meta |-> [pgid |-> pgid, freelist |-> fl], ids |-> ids,
     buckets |-> bks, stringer |-> str]

OneBucket(root) == 1 :> [root |-> root, pairs |-> <<>>]

\* a root leaf with any keys in any order, under every stringer
LeafSnapshots ==
    {Snapshot(PagesWith(2 :> LeafPage(keys, 0)), 3, pgidNoFreelist, <<>>, OneBucket(2), str) :
        keys \in SeqsUpTo(Keys, MaxElems), str \in Stringers}

\* a root branch over two leaves
TreeSnapshots ==
    {Snapshot(PagesWith(2 :> BranchPage(<<k[1], k[2]>>, <<3, 4>>)
                        @@ 3 :> LeafPage(l3, 0) @@ 4 :> LeafPage(l4, 0)),
              5, pgidNoFreelist, <<>>, OneBucket(2), "hex") :
        k \in [1 .. 2 -> ShortKeys], l3 \in SeqsUpTo(ShortKeys, 2), l4 \in SeqsUpTo(ShortKeys, 1)}

\* a root branch over a branch over two leaves
DeepSnapshots ==
    {Snapshot(PagesWith(2 :> BranchPage(<<k0>>, <<3>>)
                        @@ 3 :> BranchPage(<<k[1], k[2]>>, <<4, 5>>)
                        @@ 4 :> LeafPage(l4, 0) @@ 5 :> LeafPage(l5, 0)),
              6, pgidNoFreelist, <<>>, OneBucket(2), "hex") :
        k0 \in ShortKeys, k \in [1 .. 2 -> ShortKeys],
        l4 \in SeqsUpTo(ShortKeys, 1), l5 \in SeqsUpTo(ShortKeys, 1)}

\* free lists with repeated ids, in any order
FreeSnapshots ==
    {Snapshot(PagesWith(2 :> LeafPage(<<>>, 0)), NumPages, pgidNoFreelist, ids,
              OneBucket(2), "hex") :
        ids \in SeqsUpTo(PageIds, MaxFree)}

\* free sets, free list pages, high water marks and root spans
SweepSnapshots ==
    {Snapshot(PagesWith(2 :> LeafPage(<<>>, ov) @@ 3 :> FreelistPage(fov)),
              pgid, fl, ids, OneBucket(root), "hex") :
        ov \in 0 .. MaxOverflow, fov \in 0 .. MaxOverflow, pgid \in 2 .. NumPages,
        fl \in {pgidNoFreelist, 3}, root \in {0, 2},
        ids \in {q \in SeqsUpTo(PageIds, MaxFree) : Ascending(q)}}

\* child pointers to any page: shared children, the page itself, an ancestor, a
\* meta page, a page at or above the high water mark
GraphSnapshots ==
    {Snapshot(PagesWith(2 :> BranchPage(<<<<1>>, <<2>>>>, <<a, b>>)
                        @@ 3 :> BranchPage(<<<<1>>>>, <<c>>)
                        @@ 4 :> LeafPage(<<<<1>>>>, 0) @@ 5 :> LeafPage(<<<<2>>>>, 0)),
              pgid, pgidNoFreelist, <<>>, OneBucket(2), "hex") :
        a \in PageIds, b \in PageIds, c \in PageIds, pgid \in (NumPages - 2) .. NumPages}

\* page types, overlapping spans and freed pages under a root branch
PageTypes == {{"leaf"}, {"meta"}, {"branch", "leaf"}, {}}

TypeSnapshots ==
    {Snapshot(PagesWith(2 :> BranchPage(<<<<1>>, <<2>>>>, <<3, 4>>)
                        @@ 3 :> LeafPage(<<<<1>>>>, o3)
                        @@ 4 :> [flags |-> t4, overflow |-> o4, elems |-> <<>>]),
              pgid, pgidNoFreelist, ids, OneBucket(2), "hex") :
        o3 \in 0 .. MaxOverflow, o4 \in 0 .. MaxOverflow, t4 \in PageTypes,
        pgid \in {3} \cup ((NumPages - 1) .. NumPages),
        ids \in {q \in SeqsUpTo(3 .. 5, 2) : Ascending(q)}}

\* nested buckets: inline ones, ones sharing pages, pairs that are no bucket
BucketSnapshots ==
    {Snapshot(PagesWith(2 :> LeafPage(<<<<1>>, <<1>>>>, 0)
                        @@ 3 :> LeafPage(<<<<2>>, <<1>>>>, 0)
                        @@ 4 :> FreelistPage(0)),
              NumPages, pgidNoFreelist, ids,
              1 :> [root |-> r1, pairs |-> p1] @@ 2 :> [root |-> r2, pairs |-> p2]
              @@ 3 :> [root |-> r3, pairs |-> <<>>], "hex") :
        r1 \in {0, 2}, r2 \in {0, 2, 3}, r3 \in {0, 3, 4},
        p1 \in {<<>>, <<0>>, <<2>>, <<0, 2>>, <<2, 3>>}, p2 \in {<<>>, <<3>>},
        ids \in {<<>>, <<4, 4>>}}

\* ------------------------------------------------------------------------
\* Specification
\* ------------------------------------------------------------------------
\* the state after Tx.Check made the channel, for a snapshot of the family S
InitFrom(S) ==
    \E s \in S, loaded \in BOOLEAN :
        /\ pages = s.pages
        /\ meta = s.meta
        /\ freelist = [loaded |-> loaded, ids |-> s.ids]
        /\ buckets = s.buckets
        /\ stringer = s.stringer
        /\ pc = "start"
        /\ all = <<>>
        /\ fi = 1
        /\ freed = {}
        /\ reachable = <<>>
        /\ si = 0
        /\ stack = <<>>
        /\ ch = <<>>
        /\ closed = FALSE
        /\ received = <<>>
        /\ hist = <<>>
        /\ claims = [id \in 0 .. (NumPages + MaxOverflow) |-> 0]
        /\ visits = [id \in PageIds |-> 0]
        /\ walked = {}
        /\ lastRet = [pgid |-> 0, val |-> Nil]

Init ==
    \/ InitFrom(LeafSnapshots) \/ InitFrom(TreeSnapshots) \/ InitFrom(DeepSnapshots)
    \/ InitFrom(FreeSnapshots) \/ InitFrom(SweepSnapshots) \/ InitFrom(GraphSnapshots)
    \/ InitFrom(TypeSnapshots) \/ InitFrom(BucketSnapshots)

Spec == Init /\ [][Next]_vars

\* the goroutine is scheduled and the caller keeps receiving
FairSpec == Spec /\ WF_vars(Next)

\* ------------------------------------------------------------------------
\* Vocabulary of the properties
\* ------------------------------------------------------------------------
\* every finding sent so far, in the order of the sends
Sent == received \o ch

CountOf(kind, page) ==
    Cardinality({k \in 1 .. Len(Sent) : Sent[k].kind = kind /\ Sent[k].page = page})

CountKind(kind) == Cardinality({k \in 1 .. Len(Sent) : Sent[k].kind = kind})

Occurrences(q, x) == Cardinality({k \in 1 .. Len(q) : q[k] = x})

AllIds == 0 .. (NumPages + MaxOverflow)
Seeded == {0, 1} \cup FreelistSpan
FreeSet == {freelist.ids[k] : k \in 1 .. Len(freelist.ids)}
ClaimedSet == {id \in AllIds : claims[id] > 0}
Sweeping == pc \in {"sweep", "done"} /\ stack = <<>>

\* C1: the final sweep reports each id below the high water mark that is neither
\* seeded, nor claimed by the walk, nor in the free list, exactly once, and no other id
C1_FinalSweep ==
    /\ \A i \in AllIds :
          CountOf("unreachable unfreed", i) =
             IF Sweeping /\ i < si /\ i \notin Seeded \cup ClaimedSet /\ i \notin FreeSet
             THEN 1 ELSE 0
    /\ si <= meta.pgid
    /\ pc = "done" => si = meta.pgid

C1_Witness ==
    /\ pc = "done" /\ meta.freelist # pgidNoFreelist
    /\ \E i, j, k \in 2 .. (meta.pgid - 1) :
          /\ CountOf("unreachable unfreed", i) = 1
          /\ j \in FreeSet /\ j \notin ClaimedSet
          /\ k \in ClaimedSet /\ k \notin FreeSet

\* C2: every id below the high water mark that ends both reachable and freed has
\* a 'reachable freed' finding
C2_Partition ==
    pc = "done" =>
        \A i \in 0 .. (meta.pgid - 1) :
            (i \in DOMAIN reachable /\ i \in freed) => CountOf("reachable freed", i) >= 1

\* C3: every claim of an id that is already seeded or claimed sends one 'multiple
\* references' finding for it, a first claim sends none
C3_NoAliasing ==
    \A id \in AllIds :
        CountOf("multiple references", id) =
            IF id \in Seeded THEN claims[id]
            ELSE IF claims[id] > 0 THEN claims[id] - 1 ELSE 0

C3_Witness ==
    /\ pc = "done"
    /\ IsBranch(pages[2]) /\ Count(pages[2]) = 2
    /\ pages[2].elems[1].pgid = 4 /\ pages[2].elems[2].pgid = 4
    /\ IsLeaf(pages[4])
    /\ claims[4] = 2 /\ CountOf("multiple references", 4) = 1
    /\ CountKind("multiple references") = 1

\* C4: an id that is k times in the free list gets k-1 'already freed' findings
\* and is in the freed set after the scan
C4_FreeListIntegrity ==
    LET scanned == IF pc = "start" THEN <<>> ELSE SubSeq(freelist.ids, 1, fi - 1)
    IN  /\ \A x \in AllIds :
              /\ CountOf("already freed", x) =
                    IF Occurrences(scanned, x) > 1 THEN Occurrences(scanned, x) - 1 ELSE 0
              /\ x \in freed <=> Occurrences(scanned, x) >= 1
        /\ pc \notin {"start", "scan"} => fi = Len(freelist.ids) + 1

C4_Witness ==
    /\ pc = "done"
    /\ \E x, y \in PageIds :
          /\ freelist.ids = <<x, x, y>> /\ x < y
          /\ CountOf("already freed", x) = 1
          /\ CountKind("already freed") = 1

\* the findings of the key order validator
ValidatorKinds == {"branch key below ancestor", "branch key above ancestor",
                   "leaf key below ancestor", "found <", "found =",
                   "leaf key above ancestor", "unexpected page type"}

\* the keys on the leaves of the page tree under pgid, at most fuel levels deep
RECURSIVE LeafKeys(_, _)
LeafKeys(pgid, fuel) ==
    LET p == pages[pgid]
    IN  IF fuel = 0 THEN {}
        ELSE IF IsBranch(p)
             THEN UNION {LeafKeys(p.elems[i].pgid, fuel - 1) : i \in 1 .. Count(p)}
        ELSE IF IsLeaf(p) THEN {p.elems[i].key : i \in 1 .. Count(p)}
        ELSE {}

\* some branch element of the tree under pgid has a leaf key of its subtree below
\* its own key, or at or above the key of its next sibling (the inherited upper
\* bound for a last element)
RECURSIVE BoundBroken(_, _, _)
BoundBroken(pgid, upper, fuel) ==
    LET p == pages[pgid]
    IN  /\ fuel > 0
        /\ IsBranch(p)
        /\ \E i \in 1 .. Count(p) :
              LET e == p.elems[i]
                  s == IF i < Count(p) THEN Some(p.elems[i + 1].key) ELSE upper
              IN  \/ \E k \in LeafKeys(e.pgid, fuel - 1) :
                        \/ compareKeys(k, e.key) < 0
                        \/ ~s.nil /\ compareKeys(k, s.bytes) >= 0
                  \/ BoundBroken(e.pgid, s, fuel - 1)

\* C5: a run over a tree in which a leaf key lies outside the interval set by an
\* ancestor's separators has at least one finding of the key order validator
C5_BoundInheritance ==
    pc = "done" =>
        \A b \in walked :
            (buckets[b].root # 0 /\ BoundBroken(buckets[b].root, Nil, NumPages))
                => \E k \in 1 .. Len(Sent) : Sent[k].kind \in ValidatorKinds

\* C7: a page the walk has visited has an 'out of bounds' finding exactly when
\* its id is at or above the high water mark
C7_OutOfBounds ==
    /\ \A k \in 1 .. Len(stack) :
          (stack[k].fn = "fp" /\ stack[k].pc # "bounds" /\ stack[k].pgid >= meta.pgid)
              => CountOf("out of bounds", stack[k].pgid) >= 1
    /\ \A id \in PageIds : id < meta.pgid => CountOf("out of bounds", id) = 0

\* C8: on every snapshot the check ends by closing the channel
C8_Termination == <>closed

CountAt(kind, page, idx) ==
    Cardinality({k \in 1 .. Len(Sent) :
                    Sent[k].kind = kind /\ Sent[k].page = page /\ Sent[k].idx = idx})

\* the pages the validator treats as leaf pages
LeafPages == {p \in PageIds : IsLeaf(pages[p]) /\ ~IsBranch(pages[p])}

\* C6: per visit of a leaf page and per element i > 0, one 'found <' when the key
\* is below the key of element i-1, one 'found =' when it equals it, neither when
\* it is above; the finding names the key and the key before it
C6_LeafOrdering ==
    /\ pc = "done" =>
          \A p \in LeafPages : \A i \in 0 .. (Count(pages[p]) - 1) :
              LET c == IF i = 0 THEN 1
                       ELSE compareKeys(pages[p].elems[i + 1].key, pages[p].elems[i].key)
              IN  /\ CountAt("found <", p, i) = IF c < 0 THEN visits[p] ELSE 0
                  /\ CountAt("found =", p, i) = IF c = 0 THEN visits[p] ELSE 0
    /\ \A k \in 1 .. Len(Sent) :
          Sent[k].kind \in {"found <", "found ="} =>
              LET f == Sent[k]
              IN  /\ f.page \in LeafPages
                  /\ f.idx \in 1 .. (Count(pages[f.page]) - 1)
                  /\ f.key = KeyToString(pages[f.page].elems[f.idx + 1].key)
                  /\ f.other = KeyToString(pages[f.page].elems[f.idx].key)

\* a root leaf with keys [2, 1, 11]: the last key is above 1 and below 2
C6_Witness ==
    /\ pc = "done" /\ stringer = "hex"
    /\ pages[2] = LeafPage(<<<<2>>, <<1>>, <<1, 1>>>>, 0)
    /\ visits[2] = 1
    /\ Len(received) = 1
    /\ received[1].kind = "found <" /\ received[1].idx = 1
    /\ received[1].key = <<"0", "1">>

\* the buckets checkBucket is called on: the root bucket, and the buckets in the
\* pairs of every such bucket that is not inline
RECURSIVE WalkedFrom(_, _)
WalkedFrom(b, fuel) ==
    IF fuel = 0 \/ buckets[b].root = 0 THEN {b}
    ELSE {b} \cup UNION {WalkedFrom(buckets[b].pairs[k], fuel - 1) :
                            k \in {n \in 1 .. Len(buckets[b].pairs) : buckets[b].pairs[n] # 0}}

Ordered(p) ==
    \A i \in 1 .. (Count(pages[p]) - 1) :
        compareKeys(pages[p].elems[i].key, pages[p].elems[i + 1].key) < 0

\* the first key of a child is not below the key of its branch element, and the
\* keys of a child are below the key of the next element
ChildrenBounded(p) ==
    \A i \in 1 .. Count(pages[p]) :
        LET child == pages[pages[p].elems[i].pgid]
            held == IsBranch(child) \/ IsLeaf(child)
        IN  /\ (held /\ Count(child) > 0)
                   => compareKeys(pages[p].elems[i].key, child.elems[1].key) <= 0
            /\ (held /\ i < Count(pages[p]))
                   => \A n \in 1 .. Count(child) :
                          compareKeys(child.elems[n].key, pages[p].elems[i + 1].key) < 0

\* no test of the check holds on the snapshot
NothingToReport ==
    /\ \A x \in AllIds : Occurrences(freelist.ids, x) <= 1
    /\ \A id \in AllIds : claims[id] <= 1 /\ (id \in Seeded => claims[id] = 0)
    /\ \A i \in 0 .. (meta.pgid - 1) : i \in Seeded \cup ClaimedSet \cup FreeSet
    /\ \A p \in PageIds :
          visits[p] > 0 =>
              /\ p <= meta.pgid
              /\ p \notin FreeSet
              /\ IsBranch(pages[p]) \/ IsLeaf(pages[p])
              /\ p \in LeafPages => Ordered(p)
              /\ IsBranch(pages[p]) => ChildrenBounded(p)

\* C9: the channel is closed by the goroutine once the scan, the walk of every
\* bucket and the whole sweep are over and every finding has been received; a
\* closed channel with no finding means no test of the check held
C9_CloseSignalsCompletion ==
    /\ closed <=> pc = "done"
    /\ closed =>
          /\ stack = <<>> /\ ch = <<>>
          /\ fi = Len(freelist.ids) + 1
          /\ si = meta.pgid
          /\ Len(received) = Len(hist)
          /\ WalkedFrom(1, Cardinality(DOMAIN buckets)) = walked
          /\ \A b \in walked : buckets[b].root # 0 => visits[buckets[b].root] > 0
    /\ (closed /\ received = <<>>) => NothingToReport

C9_Witness ==
    /\ closed /\ received = <<>>
    /\ Cardinality({p \in PageIds : visits[p] > 0}) >= 3
    /\ meta.pgid >= 5

Phase(line) == IF line = 32 THEN 1 ELSE IF line = 54 THEN 3 ELSE 2

\* the bucket at the end of path a holds the bucket at the end of path b
Holds(a, b) == 0 < Len(a) /\ Len(a) < Len(b) /\ SubSeq(b, 1, Len(a)) = a

\* what the callback of checkBucket can send on page p, in order
PageEvents(p) ==
    <<<<"out of bounds", p>>>>
    \o [i \in 1 .. (pages[p].overflow + 1) |-> <<"multiple references", p + i - 1>>]
    \o <<<<"reachable freed", p>>, <<"invalid type", p>>>>

\* what the callback can send on the pages under pgid, in pre-order
RECURSIVE WalkEvents(_, _)
RECURSIVE ChildEvents(_, _, _)
WalkEvents(pgid, fuel) ==
    IF fuel = 0 THEN <<>>
    ELSE PageEvents(pgid)
         \o (IF IsBranch(pages[pgid]) THEN ChildEvents(pgid, 1, fuel) ELSE <<>>)
ChildEvents(pgid, i, fuel) ==
    IF i > Count(pages[pgid]) THEN <<>>
    ELSE WalkEvents(pages[pgid].elems[i].pgid, fuel - 1) \o ChildEvents(pgid, i + 1, fuel)

\* what the validator can send on the pages under pgid, in the order of its descent
RECURSIVE CheckEvents(_, _)
RECURSIVE ElemEvents(_, _, _)
CheckEvents(pgid, fuel) ==
    IF fuel = 0 THEN <<>>
    ELSE IF IsBranch(pages[pgid]) \/ IsLeaf(pages[pgid]) THEN ElemEvents(pgid, 1, fuel)
    ELSE <<<<"unexpected page type", pgid, 0 - 1>>>>
ElemEvents(pgid, i, fuel) ==
    IF i > Count(pages[pgid]) THEN <<>>
    ELSE (IF IsBranch(pages[pgid])
          THEN <<<<"branch key below ancestor", pgid, i - 1>>,
                 <<"branch key above ancestor", pgid, i - 1>>>>
               \o CheckEvents(pages[pgid].elems[i].pgid, fuel - 1)
          ELSE <<<<"leaf key below ancestor", pgid, i - 1>>, <<"found <", pgid, i - 1>>,
                 <<"found =", pgid, i - 1>>, <<"leaf key above ancestor", pgid, i - 1>>>>)
         \o ElemEvents(pgid, i + 1, fuel)

\* fs is ev with some elements left out
RECURSIVE Subsequence(_, _)
Subsequence(fs, ev) ==
    IF fs = <<>> THEN TRUE
    ELSE IF ev = <<>> THEN FALSE
    ELSE IF Head(fs) = Head(ev) THEN Subsequence(Tail(fs), Tail(ev))
    ELSE Subsequence(fs, Tail(ev))

\* the page findings sent while walking the buckets of path, in the order sent
PageFindingsOf(path) ==
    LET ks == SelectSeq([k \in 1 .. Len(hist) |-> k],
                        LAMBDA k : hist[k].b = path /\ hist[k].line \in 72 .. 88)
    IN  [n \in 1 .. Len(ks) |-> <<Sent[ks[n]].kind, Sent[ks[n]].page>>]

\* the findings of the validator sent while walking the buckets of path
CheckFindingsOf(path) ==
    LET ks == SelectSeq([k \in 1 .. Len(hist) |-> k],
                        LAMBDA k : hist[k].b = path /\ hist[k].line >= 125)
    IN  [n \in 1 .. Len(ks) |-> <<Sent[ks[n]].kind, Sent[ks[n]].page, Sent[ks[n]].idx>>]

RootOf(path) == buckets[path[Len(path)]].root

\* C10: 'already freed' findings come first, 'unreachable unfreed' ones last and
\* in ascending id; in a bucket the page findings follow the pre-order of its
\* pages and come before those of the validator, which follow its descent; the
\* findings of a nested bucket come after those of the bucket holding it
C10_Order ==
    /\ Len(hist) = Len(Sent)
    /\ \A j, k \in 1 .. Len(hist) :
          j < k =>
              /\ Phase(hist[j].line) <= Phase(hist[k].line)
              /\ (hist[j].line = 54 /\ hist[k].line = 54) => Sent[j].page < Sent[k].page
              /\ ~Holds(hist[k].b, hist[j].b)
              /\ hist[j].b = hist[k].b => ~(hist[j].line >= 125 /\ hist[k].line <= 88)
    /\ \A k \in 1 .. Len(hist) :
          /\ hist[k].b = <<>> <=> Phase(hist[k].line) # 2
          /\ Sent[k].kind = "already freed" <=> hist[k].line = 32
          /\ Sent[k].kind = "unreachable unfreed" <=> hist[k].line = 54
    /\ pc = "done" =>
          \A k \in 1 .. Len(hist) :
              hist[k].b # <<>> =>
                  /\ Subsequence(PageFindingsOf(hist[k].b),
                                 WalkEvents(RootOf(hist[k].b), NumPages))
                  /\ Subsequence(CheckFindingsOf(hist[k].b),
                                 CheckEvents(RootOf(hist[k].b), NumPages))

C10_Witness ==
    /\ pc = "done"
    /\ CountKind("already freed") >= 1
    /\ CountKind("unreachable unfreed") >= 2
    /\ \E j, k \in 1 .. Len(hist) :
          /\ j < k
          /\ hist[j].b = <<1>> /\ hist[j].line = 158
          /\ hist[k].b = <<1, 2>> /\ hist[k].line = 79

\* ---------------------------------------------------------------- C11

\* what the producer goroutine owns: its position, its locals and the stream's end
producer == <<pc, all, fi, freed, reachable, si, stack, closed, hist, claims,
              visits, walked, lastRet>>

\* C11: a finding is handed over synchronously.  At most one finding is in
\* flight; while it has not been received the producer takes no step at all
\* (its position and locals stay as they are and the stream stays open), and the
\* only step that can end the wait is the caller's receive of that finding.  A
\* caller that never receives therefore leaves the producer where it is for
\* ever: it does not complete and the stream is not closed.
C11_Backpressure ==
    [][ /\ Len(ch) <= 1 /\ Len(ch') <= 1
        /\ Len(hist) = Len(received) + Len(ch)
        /\ ch # <<>> =>
              /\ ~closed /\ ~closed' /\ pc # "done"
              /\ UNCHANGED producer
              /\ ch' = <<>>
              /\ received' = Append(received, ch[1]) ]_vars

\* a finding of the bucket walk is waiting for the caller, after earlier ones
C11_Witness ==
    /\ ch # <<>> /\ ~closed
    /\ stack # <<>>
    /\ Len(received) >= 2

\* ---------------------------------------------------------------- C12
\* The finding sequence of a snapshot, computed as a function of the snapshot
\* and of the stringer alone.  A walk carries acc = [out, reach, dead]: the
\* findings so far, the reachability set, and whether the goroutine stack was
\* exhausted; the validator yields [out, ret, dead].

RECURSIVE ScanOf(_, _)
ScanOf(k, seen) ==
    IF k > Len(freelist.ids) THEN <<>>
    ELSE (IF freelist.ids[k] \in seen
          THEN <<PageFinding("already freed", freelist.ids[k])>> ELSE <<>>)
         \o ScanOf(k + 1, seen \cup {freelist.ids[k]})

Dead(acc) == [acc EXCEPT !.dead = TRUE]

RECURSIVE ClaimsOf(_, _, _)
ClaimsOf(pgid, i, acc) ==
    IF i > pages[pgid].overflow THEN acc
    ELSE ClaimsOf(pgid, i + 1,
                  [acc EXCEPT !.out = IF pgid + i \in acc.reach
                                      THEN Append(@, PageFinding("multiple references", pgid + i))
                                      ELSE @,
                              !.reach = @ \cup {pgid + i}])

BoundsOf(pgid) ==
    IF pgid > meta.pgid
    THEN <<Finding("out of bounds", pgid, 0 - 1, <<>>, <<>>, <<>>, meta.pgid, {})>>
    ELSE <<>>

TypeOf(pgid) ==
    IF pgid \in FreeSet THEN <<PageFinding("reachable freed", pgid)>>
    ELSE IF ~IsBranch(pages[pgid]) /\ ~IsLeaf(pages[pgid])
         THEN <<Finding("invalid type", pgid, 0 - 1, <<>>, <<>>, <<>>, 0, pages[pgid].flags)>>
         ELSE <<>>

RECURSIVE VisitOf(_, _, _), ChildrenOf(_, _, _, _)
\* the callback on page pgid, run with d frames on the stack, then its children
VisitOf(pgid, d, acc) ==
    IF acc.dead THEN acc
    ELSE ChildrenOf(pgid, 1, d,
                    [ClaimsOf(pgid, 0, [acc EXCEPT !.out = @ \o BoundsOf(pgid)])
                       EXCEPT !.out = @ \o TypeOf(pgid)])

ChildrenOf(pgid, k, d, acc) ==
    IF acc.dead \/ ~IsBranch(pages[pgid]) \/ k > Count(pages[pgid]) THEN acc
    ELSE IF d >= MaxStack THEN Dead(acc)
    ELSE ChildrenOf(pgid, k + 1, d, VisitOf(pages[pgid].elems[k].pgid, d + 1, acc))

KeyFindingOf(kind, pgid, i, key, other, ps) == Finding(kind, pgid, i, key, other, ps, 0, {})

\* the findings of element i of a leaf page, runningMin being run
LeafElemOf(str, pgid, i, run, max, ps) ==
    LET key == pages[pgid].elems[i + 1].key
    IN  (IF i = 0 /\ ~run.nil /\ compareKeys(run.bytes, key) > 0
         THEN <<KeyFindingOf("leaf key below ancestor", pgid, i, Render(str, key), <<>>, ps)>>
         ELSE <<>>)
        \o (IF i > 0 /\ compareKeys(run.bytes, key) > 0
            THEN <<KeyFindingOf("found <", pgid, i, Render(str, key),
                                Render(str, run.bytes), ps)>>
            ELSE <<>>)
        \o (IF i > 0 /\ compareKeys(run.bytes, key) = 0
            THEN <<KeyFindingOf("found =", pgid, i, Render(str, key),
                                Render(str, run.bytes), ps)>>
            ELSE <<>>)
        \o (IF ~max.nil /\ compareKeys(key, max.bytes) >= 0
            THEN <<KeyFindingOf("leaf key above ancestor", pgid, i, Render(str, key),
                                Render(str, max.bytes), ps)>>
            ELSE <<>>)

RECURSIVE LeafOf(_, _, _, _, _, _)
LeafOf(str, pgid, i, run, max, ps) ==
    IF i >= Count(pages[pgid]) THEN <<>>
    ELSE LeafElemOf(str, pgid, i, run, max, ps)
         \o LeafOf(str, pgid, i + 1, Some(pages[pgid].elems[i + 1].key), max, ps)

\* the findings of element i of a branch page before the recursion into its child
BranchElemOf(str, pgid, i, min, max, ps) ==
    LET key == pages[pgid].elems[i + 1].key
    IN  (IF i = 0 /\ ~min.nil /\ compareKeys(min.bytes, key) > 0
         THEN <<KeyFindingOf("branch key below ancestor", pgid, i, Render(str, key), <<>>, ps)>>
         ELSE <<>>)
        \o (IF ~max.nil /\ compareKeys(key, max.bytes) >= 0
            THEN <<KeyFindingOf("branch key above ancestor", pgid, i, Render(str, key),
                                Render(str, max.bytes), ps)>>
            ELSE <<>>)

RECURSIVE CheckOf(_, _, _, _, _, _), BranchOf(_, _, _, _, _, _, _, _)
\* recursivelyCheckPagesInternal on page pgid, run with d frames on the stack
CheckOf(str, pgid, min, max, stk, d) ==
    LET p == pages[pgid]
        ps == Append(stk, pgid)
    IN  IF IsBranch(p)
        THEN BranchOf(str, pgid, 0, min, max, ps, d, [out |-> <<>>, ret |-> Nil, dead |-> FALSE])
        ELSE IF IsLeaf(p)
        THEN [out |-> LeafOf(str, pgid, 0, min, max, ps),
              ret |-> IF Count(p) > 0 THEN Some(p.elems[Count(p)].key) ELSE Nil,
              dead |-> FALSE]
        ELSE [out |-> <<Finding("unexpected page type", pgid, 0 - 1, <<>>, <<>>, <<>>, 0, {})>>,
              ret |-> Nil, dead |-> FALSE]

BranchOf(str, pgid, i, min, max, ps, d, acc) ==
    IF acc.dead \/ i >= Count(pages[pgid]) THEN acc
    ELSE LET p == pages[pgid]
             here == acc.out \o BranchElemOf(str, pgid, i, min, max, ps)
             maxKey == IF i < Count(p) - 1 THEN Some(p.elems[i + 2].key) ELSE max
         IN  IF d >= MaxStack THEN [acc EXCEPT !.out = here, !.dead = TRUE]
             ELSE \* one evaluation of the recursion, bound to r
                  LET next(r) == [out |-> here \o r.out, ret |-> r.ret, dead |-> r.dead]
                  IN  BranchOf(str, pgid, i + 1, min, max, ps, d,
                               next(CheckOf(str, p.elems[i + 1].pgid,
                                            Some(p.elems[i + 1].key), maxKey, ps, d + 1)))

RECURSIVE BucketOf(_, _, _, _), PairsOf(_, _, _, _, _)
\* checkBucket on bucket b, run with d frames on the stack
BucketOf(str, b, d, acc) ==
    IF acc.dead \/ buckets[b].root = 0 THEN acc
    ELSE IF d >= MaxStack THEN Dead(acc)
    ELSE LET keys(a) ==
                 IF a.dead THEN a
                 ELSE LET merge(r) == [a EXCEPT !.out = @ \o r.out, !.dead = r.dead]
                      IN  merge(CheckOf(str, buckets[b].root, Nil, Nil, <<>>, d + 1))
         IN  PairsOf(str, b, 1, d, keys(VisitOf(buckets[b].root, d + 1, acc)))

PairsOf(str, b, k, d, acc) ==
    IF acc.dead \/ k > Len(buckets[b].pairs) THEN acc
    ELSE IF buckets[b].pairs[k] = 0 THEN PairsOf(str, b, k + 1, d, acc)
    ELSE IF d >= MaxStack THEN Dead(acc)
    ELSE PairsOf(str, b, k + 1, d, BucketOf(str, buckets[b].pairs[k], d + 1, acc))

RECURSIVE SweepOf(_, _)
SweepOf(i, reach) ==
    IF i >= meta.pgid THEN <<>>
    ELSE (IF i \notin reach /\ i \notin FreeSet
          THEN <<PageFinding("unreachable unfreed", i)>> ELSE <<>>)
         \o SweepOf(i + 1, reach)

Expected(str) ==
    LET rest(w) == w.out \o (IF w.dead THEN <<>> ELSE SweepOf(0, w.reach))
    IN  ScanOf(1, {})
        \o rest(BucketOf(str, 1, 1, [out |-> <<>>, reach |-> Seeded, dead |-> FALSE]))

Over == pc \in {"done", "crashed"}

\* C12: the finding sequence is a function of the snapshot.  In every run, under
\* every interleaving of producer and caller steps, the findings sent so far are
\* the first findings of the one sequence Expected that the pages, the meta, the
\* free list ids and the buckets determine, element by element and in that
\* order, and a run that is over has sent all of it; two runs on one snapshot
\* therefore produce identical sequences.
C12_Determinism ==
    (ch # <<>> \/ Over) =>
        \E e \in {Expected(stringer)} :
            /\ Len(Sent) <= Len(e)
            /\ Sent = SubSeq(e, 1, Len(Sent))
            /\ Over => Sent = e

\* a finished run that sent findings of the scan, of both passes of the walk and
\* of the sweep
C12_Witness ==
    /\ pc = "done"
    /\ CountKind("already freed") >= 1
    /\ CountKind("multiple references") >= 1
    /\ \E k \in 1 .. Len(received) : received[k].kind \in ValidatorKinds
    /\ CountKind("unreachable unfreed") >= 1
    /\ received = Expected(stringer)

\* ---------------------------------------------------------------- C13

\* two findings that differ at most in the rendered key text
SameButText(f, g) ==
    /\ f.kind = g.kind /\ f.page = g.page /\ f.idx = g.idx /\ f.stack = g.stack
    /\ f.num = g.num /\ f.typ = g.typ
    /\ f.kind \notin ValidatorKinds => f.key = g.key /\ f.other = g.other

\* C13: the stringer does not influence detection.  The findings a run sends
\* under its stringer match, one by one, the first findings of the sequence the
\* same snapshot yields under any other stringer: same kind, same page id, same
\* element index, same page stack, at most the rendered key text differs; and a
\* run that is over has sent as many findings as the other stringer yields.
C13_StringerIndependence ==
    (ch # <<>> \/ Over) =>
        \A str \in Stringers \ {stringer} :
            \E e \in {Expected(str)} :
                /\ Len(Sent) <= Len(e)
                /\ \A k \in 1 .. Len(Sent) : SameButText(Sent[k], e[k])
                /\ Over => Len(Sent) = Len(e)

\* a finished run under the abbreviating stringer, whose 'found <' finding reads
\* differently from the one the hex stringer renders
C13_Witness ==
    /\ pc = "done" /\ stringer = "first"
    /\ \E k \in 1 .. Len(received) :
          /\ received[k].kind = "found <"
          /\ received[k] # Expected("hex")[k]

\* ---------------------------------------------------------------- C14

InlineEntry == stack # <<>> /\ Top.fn = "cb" /\ Top.pc = "entry" /\ Top.pgid = 0

\* the root bucket is inline, no id is twice in the free list, and every id from
\* 2 up to the high water mark is in the free list or in the free list's span
Quiet ==
    /\ buckets[1].root = 0
    /\ \A j, k \in 1 .. Len(freelist.ids) : j # k => freelist.ids[j] # freelist.ids[k]
    /\ \A i \in 2 .. (meta.pgid - 1) : i \in FreeSet \cup FreelistSpan

\* C15: checkBucket on a bucket whose root is 0 returns at once: the step taken
\* there pops the frame and sends nothing, adds nothing to the reachability set,
\* starts no validator and no iteration of the pairs; no page visit, validator
\* call or pair iteration ever runs for an inline bucket.  Consequently a run on
\* a snapshot that is Quiet sends no finding at any time, never stops short of
\* the end, and ends with the stream closed.
C15_InlineSkipped ==
    /\ [][ /\ InlineEntry =>
                 /\ buckets[Top.b].root = 0
                 /\ stack' = Below
                 /\ UNCHANGED <<ch, received, hist, reachable, claims, visits>>
           /\ \A k \in 1 .. Len(stack') :
                 buckets[stack'[k].b].root = 0 =>
                     stack'[k].fn = "cb" /\ stack'[k].pc = "entry" /\ k = Len(stack')
           /\ Quiet =>
                 /\ Sent' = <<>>
                 /\ pc' # "crashed"
                 /\ pc' = "done" => closed' /\ received' = <<>> ]_vars
    /\ Quiet => <>(closed /\ received = <<>>)

\* the run on a snapshot with an inline root bucket, a free list page and free
\* ids is over: no finding, stream closed
C15_Witness ==
    /\ pc = "done" /\ closed /\ received = <<>>
    /\ buckets[1].root = 0 /\ 1 \in walked
    /\ meta.pgid >= 5 /\ meta.freelist # pgidNoFreelist /\ Len(freelist.ids) >= 1

\* ---------------------------------------------------------------- C16

\* C16: a claim of an id that is already in the reachability set leaves its
\* entry as it is: once an id is in the set, by a seed or by the first page that
\* claimed it, the page it maps to never changes.
C16_FirstOwner ==
    [][\A id \in DOMAIN reachable :
          id \in DOMAIN reachable' /\ reachable'[id] = reachable[id]]_vars

\* ---------------------------------------------------------------- C17

\* the callback of the bucket walk is at the tests of lines 85-89 for a page
AtType == stack # <<>> /\ Top.fn = "fp" /\ Top.pc = "type"

NoTreeFlag(pgid) == pages[pgid].flags \cap {"branch", "leaf"} = {}

\* C17: for each visit of a page by the bucket walk, the step of the free list
\* and page type tests sends 'reachable freed' when the page id is in the free
\* list, whatever the flags; else 'invalid type' when the flags hold neither
\* branch nor leaf; else nothing: one finding at most.  No other step sends
\* either kind, and what was sent for the page before (out of bounds, multiple
\* references) plays no part.
C17_TypeUnlessFreed ==
    [][ /\ (AtType /\ ch = <<>>) =>
              /\ Top.pgid \in FreeSet =>
                    ch' = <<PageFinding("reachable freed", Top.pgid)>>
              /\ (Top.pgid \notin FreeSet /\ NoTreeFlag(Top.pgid)) =>
                    /\ Len(ch') = 1
                    /\ ch'[1].kind = "invalid type" /\ ch'[1].page = Top.pgid
                    /\ ch'[1].typ = pages[Top.pgid].flags
              /\ (Top.pgid \notin FreeSet /\ ~NoTreeFlag(Top.pgid)) => ch' = <<>>
        /\ (ch' # <<>> /\ ch'[1].kind \in {"reachable freed", "invalid type"}) =>
              AtType /\ ch = <<>> /\ ch'[1].page = Top.pgid ]_vars

\* a page beyond the high water mark, claimed before, freed and of no tree type:
\* the run sent 'out of bounds', 'multiple references' and one 'reachable freed'
\* for it, and no 'invalid type'
C17_Witness ==
    /\ pc = "done"
    /\ \E p \in PageIds :
          /\ p \in FreeSet /\ NoTreeFlag(p)
          /\ CountOf("out of bounds", p) = 1
          /\ CountOf("multiple references", p) = 1
          /\ CountOf("reachable freed", p) = 1
          /\ CountOf("invalid type", p) = 0

\* ---------------------------------------------------------------- C18

\* a branch page on which some element after the first has a key that is not
\* greater than the key of the element before it
SeparatorsDisordered(p) ==
    /\ IsBranch(pages[p])
    /\ \E i \in 2 .. Count(pages[p]) :
          compareKeys(pages[p].elems[i].key, pages[p].elems[i - 1].key) <= 0

\* C18: a branch page the validator walked whose separators are not strictly
\* increasing causes at least one key-order finding, whatever its children hold.
C18_SeparatorsIncrease ==
    pc = "done" =>
        \A p \in PageIds :
            (visits[p] > 0 /\ SeparatorsDisordered(p)) =>
                \E k \in 1 .. Len(received) : received[k].kind \in ValidatorKinds

\* ---------------------------------------------------------------- C19

\* C19: the value recursivelyCheckPagesInternal returned last, for the subtree
\* of page lastRet.pgid, is the greatest of the leaf keys of that subtree, and
\* nil exactly when the subtree holds no key.
C19_ReturnsGreatest ==
    \E ks \in {LeafKeys(lastRet.pgid, NumPages)} :
        IF ks = {} THEN lastRet.val = Nil
        ELSE /\ ~lastRet.val.nil
             /\ lastRet.val.bytes \in ks
             /\ \A k \in ks : compareKeys(k, lastRet.val.bytes) <= 0

====
